---- MODULE Spec2Model ----
(***************************************************************************)
(* A model of the local light-transport core of SORT: the material shading *)
(* graph (src/material/bxdf_node.cpp), the Whitted integrator              *)
(* (src/integrator/whittedrt.cpp) and the area light (src/light/area.cpp). *)
(*                                                                         *)
(* The subsystems do not share state, so each has a specification of its   *)
(* own over its own variables; the variables of the other subsystems are   *)
(* parked at a fixed value and left unchanged.                             *)
(*   SpecValid  CheckValidation of one BXDF node and its wiring            *)
(*   SpecShade  UpdateBSDF over a shading graph, two evaluations           *)
(*   SpecPost   PostProcess of the measured-data nodes                     *)
(*   SpecLi     WhittedRT::Li                                              *)
(*   SpecArea   AreaLight::sample_l (incident variant)                     *)
(*   SpecAlloc  allocations of the microfacet nodes' UpdateBSDF            *)
(***************************************************************************)
EXTENDS Integers, Sequences, FiniteSets, TLC

VARIABLES
    \* ---- SpecValid: the node under validation
    nodeKind,       \* the node's class
    m_props,        \* MaterialNode::m_props of a non-layered node: name -> slot
    bxdfs,          \* LayeredBxdfNode::bxdfs[MAX_BXDF_COUNT]
    weights,        \* LayeredBxdfNode::weights[MAX_BXDF_COUNT]
    baseValid,      \* what MaterialNode::CheckValidation answers for this node
    validation,     \* "unchecked", or the answer of CheckValidation
    \* ---- SpecShade: a shading graph and the evaluations running on it
    graph,          \* node -> [kind, bxdfs, weights]; built at scene load
    m_weight,       \* node -> m_weight of the Bxdf member (merl, fourierBxdf)
    evalState,      \* evaluation -> "idle", "running", "done"
    topWeight,      \* evaluation -> the weight its root call was given
    stack,          \* evaluation -> call stack of UpdateBSDF frames
    bsdf,           \* evaluation -> the Bsdf's terms (object references)
    arena,          \* evaluation -> m_weight of each term it allocated
    setWeight,      \* evaluation -> the weight it set for each term it added
    written,        \* nodes whose state a shading step has written
    \* ---- SpecPost: the measured-data nodes
    filename,       \* node kind -> merlfile.str / fourierBxdfFile.str
    m_post_processed, \* node kind -> MaterialNode::m_post_processed
    table,          \* node kind -> the file whose data the Bxdf member holds
    loads,          \* node kind -> number of LoadData calls so far
    calls,          \* node kind -> number of PostProcess calls so far
    \* ---- SpecLi: one call of WhittedRT::Li
    lights,         \* scene.GetLights(), with what each light's sample yields
    env,            \* scene.Le(r), the environment radiance of the ray
    li_pc,          \* "call", "loop", "done"
    r_depth,        \* r.m_Depth
    r_hit,          \* what scene.GetIntersect( r , &ip ) answers
    it,             \* the iterator over the lights (an index)
    li_t,           \* Spectrum t, the accumulated radiance
    li_result,      \* the Spectrum Li returns
    intersected,    \* scene.GetIntersect was called
    bsdfBuilt,      \* GetMaterial()->GetBsdf( &ip ) was called
    sampled,        \* indices of the lights whose sample_l was called
    visTested,      \* indices of the lights visibility.IsVisible() was asked for
    \* ---- SpecArea: one call of AreaLight::sample_l (incident variant)
    shapeSample,    \* what shape->sample_l yields: [pdf, len, dot]
    surfaceArea,    \* shape->SurfaceArea()
    supplied,       \* which optional outputs the caller passes (non-null)
    out,            \* the outputs: distance, pdfW, emissionPdf, cosAtLight
    visibility_ray, \* visibility.ray
    al_ret,         \* the Spectrum sample_l returned
    \* ---- SpecAlloc: the allocations of a microfacet node's UpdateBSDF
    mf_node,        \* the node's class
    mf_dist,        \* mf_dist.str
    mf_vis,         \* mf_vis.str
    arenaObjs,      \* classes of the objects live in the arena (SORT_MALLOC)
    heapObjs,       \* classes of the objects live on the heap (new)
    shadings,       \* UpdateBSDF calls in the current task
    resets          \* arena resets so far

validVars == <<nodeKind, m_props, bxdfs, weights, baseValid, validation>>

shadeVars ==
    <<graph, m_weight, evalState, topWeight, stack, bsdf, arena, setWeight,
      written>>

postVars == <<filename, m_post_processed, table, loads, calls>>

liVars ==
    <<lights, env, li_pc, r_depth, r_hit, it, li_t, li_result, intersected,
      bsdfBuilt, sampled, visTested>>

areaVars == <<shapeSample, surfaceArea, supplied, out, visibility_ray, al_ret>>

allocVars == <<mf_node, mf_dist, mf_vis, arenaObjs, heapObjs, shadings, resets>>

vars == <<validVars, shadeVars, postVars, liVars, areaVars, allocVars>>

\* What an action of one subsystem leaves alone.
ValidOnly == UNCHANGED <<shadeVars, postVars, liVars, areaVars, allocVars>>

ShadeOnly == UNCHANGED <<validVars, postVars, liVars, areaVars, allocVars>>

PostOnly == UNCHANGED <<validVars, shadeVars, liVars, areaVars, allocVars>>

LiOnly == UNCHANGED <<validVars, shadeVars, postVars, areaVars, allocVars>>

AreaOnly == UNCHANGED <<validVars, shadeVars, postVars, liVars, allocVars>>

AllocOnly == UNCHANGED <<validVars, shadeVars, postVars, liVars, areaVars>>

----------------------------------------------------------------------------
(* Bounds and program constants.                                           *)

\* Capacity of a LayeredBxdfNode (bxdf_node.h, not among the sources; the
\* loops of bxdf_node.cpp:35,43,52,66 run over it).
MAX_BXDF_COUNT == 2

LayerIdx == 0 .. (MAX_BXDF_COUNT - 1)

----------------------------------------------------------------------------
(* Node kinds and property slots.                                          *)

LayeredKind == "LayeredBxdfNode"

\* Leaf kinds whose UpdateBSDF allocates its term (SORT_MALLOC).
AllocKinds ==
    {"LambertNode", "OrenNayarNode", "MicrofacetReflectionNode",
     "MicrofacetRefractionNode"}

\* Leaf kinds whose term is a member of the node.
MemberKinds == {"MerlNode", "FourierBxdfNode"}

LeafKinds == AllocKinds \cup MemberKinds

BxdfKinds == LeafKinds \cup {LayeredKind}

\* The names each constructor inserts into m_props.
PropNames(kind) ==
    CASE kind = "LambertNode" -> {"BaseColor"}
      [] kind = "MerlNode" -> {"Filename"}
      [] kind = "FourierBxdfNode" -> {"Filename"}
      [] kind = "OrenNayarNode" -> {"BaseColor", "Roughness"}
      [] kind = "MicrofacetReflectionNode" ->
            {"BaseColor", "MicroFacetDistribution", "Visibility",
             "Roughness", "eta", "k"}
      [] kind = "MicrofacetRefractionNode" ->
            {"BaseColor", "MicroFacetDistribution", "Visibility",
             "Roughness", "in_ior", "ext_ior"}
      [] OTHER -> {}

\* MAT_NODE_TYPE is a bitmask; a type is the set of its bits.
MAT_NODE_CONSTANT == "CONSTANT"
MAT_NODE_BXDF == "BXDF"
MAT_NODE_OTHER == "OTHER"

NodeTypes ==
    {{MAT_NODE_CONSTANT}, {MAT_NODE_BXDF}, {MAT_NODE_OTHER},
     {MAT_NODE_CONSTANT, MAT_NODE_BXDF}}

\* A property slot: its node pointer is null, or points to a node of a type.
NullSlot == [node |-> FALSE, type |-> {}]

Slots == {NullSlot} \cup {[node |-> TRUE, type |-> t] : t \in NodeTypes}

----------------------------------------------------------------------------
(* CheckValidation.                                                        *)

\* MaterialNode::CheckValidation, the rules common to all node kinds.
MaterialNode_CheckValidation == baseValid

\* bxdf_node.cpp:47  (sub_type & MAT_NODE_BXDF) == 0
Layered_BxdfSlotRejected(slot) == slot.node /\ MAT_NODE_BXDF \notin slot.type

\* bxdf_node.cpp:56  (sub_type & MAT_NODE_CONSTANT) == 0
Layered_WeightSlotRejected_Bxdf(slot) == slot.node /\ MAT_NODE_BXDF \in slot.type

Layered_WeightSlotRejected(slot) ==
    slot.node /\ MAT_NODE_CONSTANT \notin slot.type

\* bxdf_node.cpp:79  sub_type & MAT_NODE_BXDF
BxdfNode_SlotRejected_Eq(slot) == slot.node /\ slot.type = {MAT_NODE_BXDF}

BxdfNode_SlotRejected(slot) == slot.node /\ MAT_NODE_BXDF \in slot.type

LayeredBxdfNode_CheckValidation ==
    IF \E i \in LayerIdx : Layered_BxdfSlotRejected(bxdfs[i])
    THEN FALSE
    ELSE IF \E i \in LayerIdx : Layered_WeightSlotRejected(weights[i])
         THEN FALSE
         ELSE MaterialNode_CheckValidation

BxdfNode_CheckValidation ==
    IF \E name \in DOMAIN m_props : BxdfNode_SlotRejected(m_props[name])
    THEN FALSE
    ELSE MaterialNode_CheckValidation

\* The virtual call: LayeredBxdfNode overrides BxdfNode::CheckValidation.
CheckValidation ==
    /\ validation = "unchecked"
    /\ validation' =
          IF nodeKind = LayeredKind
          THEN (IF LayeredBxdfNode_CheckValidation THEN "valid" ELSE "invalid")
          ELSE (IF BxdfNode_CheckValidation THEN "valid" ELSE "invalid")
    /\ UNCHANGED <<nodeKind, m_props, bxdfs, weights, baseValid>>
    /\ ValidOnly

\* A node as the scene loader leaves it: any wiring of its slots.
ValidInit ==
    /\ nodeKind \in BxdfKinds
    /\ IF nodeKind = LayeredKind
       THEN /\ m_props = <<>>
            /\ bxdfs \in [LayerIdx -> Slots]
            /\ weights \in [LayerIdx -> Slots]
       ELSE /\ m_props \in [PropNames(nodeKind) -> Slots]
            /\ bxdfs = <<>>
            /\ weights = <<>>
    /\ baseValid \in BOOLEAN
    /\ validation = "unchecked"

----------------------------------------------------------------------------
(* UpdateBSDF over a shading graph.                                        *)

\* Bounds of the graphs and of the weights tried.
NumNodes == 3

Nodes == 1 .. NumNodes

Root == CHOOSE n \in Nodes : \A m \in Nodes : n <= m

Evals == {1, 2}

\* Values a Weight{i} slot resolves to (GetPropertyValue(bsdf).ToSpectrum()).
WeightVals == {2, 3}

\* Weights the root call is given.
TopWeights == {1, 2}

LeafConfigs ==
    {[kind |-> k, bxdfs |-> [i \in LayerIdx |-> 0],
      weights |-> [i \in LayerIdx |-> 1]] : k \in LeafKinds}

\* A layered node's sub-nodes come later in the numbering: the graph is a DAG.
\* An empty pair's weight has no effect and is fixed.
LayeredConfigs(n) ==
    {[kind |-> LayeredKind, bxdfs |-> b, weights |-> w] :
        <<b, w>> \in
            {bw \in [LayerIdx -> {0} \cup ((n + 1) .. NumNodes)]
                     \X [LayerIdx -> WeightVals \cup {1}] :
                \A i \in LayerIdx : (bw[1][i] = 0) <=> (bw[2][i] = 1)}}

NodeConfigs(n) == LeafConfigs \cup LayeredConfigs(n)

RECURSIVE Reachable(_, _)
Reachable(g, n) ==
    \/ n = Root
    \/ \E m \in 1 .. (n - 1) :
          /\ Reachable(g, m)
          /\ \E i \in LayerIdx : g[m].bxdfs[i] = n

\* Nodes no path from the root reaches are not part of the material.
Graphs ==
    {g \in [Nodes -> UNION {NodeConfigs(n) : n \in Nodes}] :
        \A n \in Nodes :
            /\ g[n] \in NodeConfigs(n)
            /\ ~Reachable(g, n) => g[n].kind = "LambertNode"}

\* A reference to a reflectance term: a member of a node, or an object an
\* evaluation allocated from its arena.
MemberRef(n) == [owner |-> "node", eval |-> 0, idx |-> n]

ArenaRef(t, k) == [owner |-> "arena", eval |-> t, idx |-> k]

\* Bxdf::m_weight of the object a reference names.
WeightOf(ref) ==
    IF ref.owner = "node" THEN m_weight[ref.idx] ELSE arena[ref.eval][ref.idx]

Frame(n, w) == [node |-> n, i |-> 0, weight |-> w, wrote |-> FALSE]

Top(t) == stack[t][Len(stack[t])]

Running(t, kinds) ==
    /\ evalState[t] = "running"
    /\ graph[Top(t).node].kind \in kinds

\* The stack with its top frame replaced by the frames fs.
Replaced(t, fs) == SubSeq(stack[t], 1, Len(stack[t]) - 1) \o fs

\* Return from the top frame; the evaluation is done when the root returns.
Return(t) ==
    /\ stack' = [stack EXCEPT ![t] = Replaced(t, <<>>)]
    /\ evalState' =
          [evalState EXCEPT ![t] = IF Len(stack[t]) = 1 THEN "done" ELSE @]

\* Material::GetBsdf: a fresh Bsdf, and UpdateBSDF on the root of the graph.
GetBsdf(t, W) ==
    /\ evalState[t] = "idle"
    /\ evalState' = [evalState EXCEPT ![t] = "running"]
    /\ topWeight' = [topWeight EXCEPT ![t] = W]
    /\ stack' = [stack EXCEPT ![t] = <<Frame(Root, W)>>]
    /\ UNCHANGED <<graph, m_weight, bsdf, arena, setWeight, written>>
    /\ ShadeOnly

\* bxdf_node.cpp:67: the weight handed to the sub-node of pair i.
LayerWeight(weight, w) == w

\* One iteration of the loop of LayeredBxdfNode::UpdateBSDF:
\* bxdfs[i].UpdateBsdf( bsdf , weights[i].GetPropertyValue(bsdf).ToSpectrum() ),
\* where MaterialNodeProperty::UpdateBsdf calls the connected node, if any.
LayeredBxdfNode_UpdateBSDF(t) ==
    /\ Running(t, {LayeredKind})
    /\ Top(t).i < MAX_BXDF_COUNT
    /\ LET f == Top(t)
           n == graph[f.node]
           next == [f EXCEPT !.i = f.i + 1]
           w == LayerWeight(f.weight, n.weights[f.i])
       IN  stack' =
              [stack EXCEPT ![t] =
                  IF n.bxdfs[f.i] = 0
                  THEN Replaced(t, <<next>>)
                  ELSE Replaced(t, <<next, Frame(n.bxdfs[f.i], w)>>)]
    /\ UNCHANGED <<graph, m_weight, evalState, topWeight, bsdf, arena,
                   setWeight, written>>
    /\ ShadeOnly

LayeredBxdfNode_Return(t) ==
    /\ Running(t, {LayeredKind})
    /\ Top(t).i = MAX_BXDF_COUNT
    /\ Return(t)
    /\ UNCHANGED <<graph, m_weight, topWeight, bsdf, arena, setWeight,
                   written>>
    /\ ShadeOnly

\* A leaf that allocates: X* x = SORT_MALLOC(X)(...); x->m_weight = weight;
\* bsdf->AddBxdf( x ). All of it is local to the evaluation.
AllocLeaf_UpdateBSDF(t, kind) ==
    /\ Running(t, {kind})
    /\ arena' = [arena EXCEPT ![t] = Append(@, Top(t).weight)]
    /\ bsdf' = [bsdf EXCEPT ![t] = Append(@, ArenaRef(t, Len(arena[t]) + 1))]
    /\ setWeight' = [setWeight EXCEPT ![t] = Append(@, Top(t).weight)]
    /\ Return(t)
    /\ UNCHANGED <<graph, m_weight, topWeight, written>>
    /\ ShadeOnly

LambertNode_UpdateBSDF(t) == AllocLeaf_UpdateBSDF(t, "LambertNode")

OrenNayarNode_UpdateBSDF(t) == AllocLeaf_UpdateBSDF(t, "OrenNayarNode")

MicrofacetReflectionNode_UpdateBSDF(t) ==
    AllocLeaf_UpdateBSDF(t, "MicrofacetReflectionNode")

MicrofacetRefractionNode_UpdateBSDF(t) ==
    AllocLeaf_UpdateBSDF(t, "MicrofacetRefractionNode")

\* A leaf whose term is a member: merl.m_weight = weight; (first statement)
MemberLeaf_SetWeight(t, kind) ==
    /\ Running(t, {kind})
    /\ ~Top(t).wrote
    /\ m_weight' = [m_weight EXCEPT ![Top(t).node] = Top(t).weight]
    /\ written' = written \cup {Top(t).node}
    /\ stack' = [stack EXCEPT ![t] = Replaced(t, <<[Top(t) EXCEPT !.wrote = TRUE]>>)]
    /\ UNCHANGED <<graph, evalState, topWeight, bsdf, arena, setWeight>>
    /\ ShadeOnly

\* bsdf->AddBxdf( &merl ); (second statement)
MemberLeaf_AddBxdf(t, kind) ==
    /\ Running(t, {kind})
    /\ Top(t).wrote
    /\ bsdf' = [bsdf EXCEPT ![t] = Append(@, MemberRef(Top(t).node))]
    /\ setWeight' = [setWeight EXCEPT ![t] = Append(@, Top(t).weight)]
    /\ Return(t)
    /\ UNCHANGED <<graph, m_weight, topWeight, arena, written>>
    /\ ShadeOnly

MerlNode_UpdateBSDF(t) ==
    \/ MemberLeaf_SetWeight(t, "MerlNode")
    \/ MemberLeaf_AddBxdf(t, "MerlNode")

FourierBxdfNode_UpdateBSDF(t) ==
    \/ MemberLeaf_SetWeight(t, "FourierBxdfNode")
    \/ MemberLeaf_AddBxdf(t, "FourierBxdfNode")

ShadeInit ==
    /\ graph \in Graphs
    /\ m_weight = [n \in Nodes |-> 1]
    /\ evalState = [t \in Evals |-> "idle"]
    /\ topWeight = [t \in Evals |-> 1]
    /\ stack = [t \in Evals |-> <<>>]
    /\ bsdf = [t \in Evals |-> <<>>]
    /\ arena = [t \in Evals |-> <<>>]
    /\ setWeight = [t \in Evals |-> <<>>]
    /\ written = {}

ShadeIdle ==
    /\ graph = <<>>
    /\ m_weight = <<>>
    /\ evalState = <<>>
    /\ topWeight = <<>>
    /\ stack = <<>>
    /\ bsdf = <<>>
    /\ arena = <<>>
    /\ setWeight = <<>>
    /\ written = {}

ValidIdle ==
    /\ nodeKind = ""
    /\ m_props = <<>>
    /\ bxdfs = <<>>
    /\ weights = <<>>
    /\ baseValid = FALSE
    /\ validation = ""

----------------------------------------------------------------------------
(* PostProcess of the measured-data nodes.                                 *)

\* Bound on the PostProcess calls made on one node.
MaxCalls == 3

\* Values of the Filename property; "" is the empty string.
FilePaths == {"", "a.binary", "b.bsdf"}

\* bxdf_node.cpp:115,136: str.empty() == false
ShouldLoad(path) == path # ""

\* MerlNode::PostProcess and FourierBxdfNode::PostProcess have the same body:
\*   if( m_post_processed ) return;
\*   if( file.str.empty() == false ) bxdf.LoadData( file.str );
\* Nothing in it assigns m_post_processed.
PostProcessBody(kind) ==
    /\ calls[kind] < MaxCalls
    /\ calls' = [calls EXCEPT ![kind] = @ + 1]
    /\ IF m_post_processed[kind]
       THEN UNCHANGED <<table, loads>>
       ELSE IF ShouldLoad(filename[kind])
            THEN /\ table' = [table EXCEPT ![kind] = filename[kind]]
                 /\ loads' = [loads EXCEPT ![kind] = @ + 1]
            ELSE UNCHANGED <<table, loads>>
    /\ UNCHANGED <<filename, m_post_processed>>
    /\ PostOnly

MerlNode_PostProcess == PostProcessBody("MerlNode")

FourierBxdfNode_PostProcess == PostProcessBody("FourierBxdfNode")

PostInit ==
    /\ filename \in [MemberKinds -> FilePaths]
    /\ m_post_processed = [k \in MemberKinds |-> FALSE]
    /\ table = [k \in MemberKinds |-> ""]
    /\ loads = [k \in MemberKinds |-> 0]
    /\ calls = [k \in MemberKinds |-> 0]

PostIdle ==
    /\ filename = <<>>
    /\ m_post_processed = <<>>
    /\ table = <<>>
    /\ loads = <<>>
    /\ calls = <<>>

----------------------------------------------------------------------------
(* WhittedRT::Li.                                                          *)

\* WhittedRT::max_recursive_depth, set by the scene file.
max_recursive_depth == 2

\* Bound on the number of lights of the scene.
MaxLights == 3

RayDepths == 0 .. (max_recursive_depth + 2)

\* A Spectrum, with what IEEE division by zero makes of it.
Fin(v) == [c |-> "fin", v |-> v]

Inf == [c |-> "inf", v |-> 0]

NaN == [c |-> "nan", v |-> 0]

\* x / pdf for x >= 0
Div(x, pdf) ==
    IF pdf # 0 THEN Fin(x \div pdf) ELSE IF x = 0 THEN NaN ELSE Inf

\* t += x, for non-negative terms
Add(t, x) ==
    IF t.c = "nan" \/ x.c = "nan" THEN NaN
    ELSE IF t.c = "inf" \/ x.c = "inf" THEN Inf
    ELSE Fin(t.v + x.v)

\* What the sample of a light yields at the hit point: ld is the radiance
\* sample_l returns, pdf the value it stores, f is bsdf->f( -r.m_Dir , lightDir ),
\* cos is SatDot( lightDir , ip.normal ), visible is visibility.IsVisible().
\* A value the loop never reads (whatever follows a skip; all of them for a
\* light that is not evaluated) is fixed, so each path through the loop body
\* is present once.
LightInputs ==
    {l \in [isDelta : BOOLEAN, ld : {0, 2}, f : {0, 1}, visible : BOOLEAN,
            cos : {0, 1}, pdf : {0, 1, 2}] :
        LET rest == <<l.f, l.visible, l.cos, l.pdf>>
        IN  /\ ~l.isDelta => l.ld = 2 /\ rest = <<1, TRUE, 1, 1>>
            /\ l.ld = 0 => rest = <<1, TRUE, 1, 1>>
            /\ l.f = 0 => <<l.visible, l.cos, l.pdf>> = <<TRUE, 1, 1>>
            /\ ~l.visible => <<l.cos, l.pdf>> = <<1, 1>>}

LightLists == UNION {[1 .. n -> LightInputs] : n \in 0 .. MaxLights}

\* Spectrum::IsBlack
IsBlack(x) == x = 0

\* whittedrt.cpp:32
DepthExceeded_Geq(depth) == depth >= max_recursive_depth

DepthExceeded(depth) == depth > max_recursive_depth

\* whittedrt.cpp:52  only delta light is evaluated
IsEvaluated_All(l) == TRUE

IsEvaluated(l) == l.isDelta

\* whittedrt.cpp:70  ld * f * SatDot( lightDir , ip.normal ) / pdf
Contribution(l) == Div(l.ld * l.f * l.cos, l.pdf)

\* whittedrt.cpp:30-47: the depth check, the intersection, the Bsdf.
Li_Enter(depth, hit) ==
    /\ li_pc = "call"
    /\ r_depth' = depth
    /\ r_hit' = hit
    /\ IF DepthExceeded(depth)
       THEN /\ li_result' = Fin(0)
            /\ li_pc' = "done"
            /\ UNCHANGED <<intersected, bsdfBuilt>>
       ELSE /\ intersected' = TRUE
            /\ IF ~hit
               THEN /\ li_result' = Fin(env)
                    /\ li_pc' = "done"
                    /\ UNCHANGED bsdfBuilt
               ELSE /\ bsdfBuilt' = TRUE
                    /\ li_pc' = "loop"
                    /\ UNCHANGED li_result
    /\ UNCHANGED <<lights, env, it, li_t, sampled, visTested>>
    /\ LiOnly

\* whittedrt.cpp:49-73: one iteration of the loop over the lights.
Li_Light ==
    /\ li_pc = "loop"
    /\ it <= Len(lights)
    /\ LET l == lights[it]
       IN  IF ~IsEvaluated(l)
           THEN UNCHANGED <<li_t, sampled, visTested>>
           ELSE /\ sampled' = sampled \cup {it}
                /\ IF IsBlack(l.ld) \/ IsBlack(l.f)
                   THEN UNCHANGED <<li_t, visTested>>
                   ELSE /\ visTested' = visTested \cup {it}
                        /\ li_t' = IF l.visible
                                   THEN Add(li_t, Contribution(l))
                                   ELSE li_t
    /\ it' = it + 1
    /\ UNCHANGED <<lights, env, li_pc, r_depth, r_hit, li_result,
                   intersected, bsdfBuilt>>
    /\ LiOnly

\* whittedrt.cpp:75
Li_Return ==
    /\ li_pc = "loop"
    /\ it > Len(lights)
    /\ li_result' = li_t
    /\ li_pc' = "done"
    /\ UNCHANGED <<lights, env, r_depth, r_hit, it, li_t, intersected,
                   bsdfBuilt, sampled, visTested>>
    /\ LiOnly

LiInit ==
    /\ lights \in LightLists
    /\ env \in {0, 5}
    /\ li_pc = "call"
    /\ r_depth = 0
    /\ r_hit = FALSE
    /\ it = 1
    /\ li_t = Fin(0)
    /\ li_result = Fin(0)
    /\ intersected = FALSE
    /\ bsdfBuilt = FALSE
    /\ sampled = {}
    /\ visTested = {}

LiIdle ==
    /\ lights = <<>>
    /\ env = 0
    /\ li_pc = ""
    /\ r_depth = 0
    /\ r_hit = FALSE
    /\ it = 0
    /\ li_t = Fin(0)
    /\ li_result = Fin(0)
    /\ intersected = FALSE
    /\ bsdfBuilt = FALSE
    /\ sampled = {}
    /\ visTested = {}

----------------------------------------------------------------------------
(* AreaLight::sample_l, the incident variant (area.cpp:35-67).             *)
(* Lengths are in units of 0.01.                                           *)

\* area.cpp:63  const float delta = 0.01f
delta == 1

\* UniformHemispherePdf(), in units that the surface areas tried divide.
UniformHemispherePdf == 12

\* AreaLight::intensity, the constant emitted radiance.
intensity == 7

\* An output the call has not written, and one it has.
Untouched == [set |-> FALSE, v |-> 0]

Stored(v) == [set |-> TRUE, v |-> v]

NoRay == [set |-> FALSE, tmin |-> 0, tmax |-> 0]

\* Ray( intersect.intersect , dirToLight , 0 , delta , len - delta )
ShadowRay(len) == [set |-> TRUE, tmin |-> delta, tmax |-> len - delta]

\* area.cpp:49  pdfW && *pdfW == 0.0f
ZeroPdfSeen(hasPdfW, pdf) == hasPdfW /\ pdf = 0

\* shape->sample_l stores the solid-angle pdf through pdfW when the caller
\* passed one; the rest follows area.cpp:44-66.
AreaLight_sample_l ==
    /\ ~al_ret.set
    /\ LET pdfOut == IF supplied.pdfW THEN Stored(shapeSample.pdf) ELSE out.pdfW
       IN  IF ZeroPdfSeen(supplied.pdfW, shapeSample.pdf)
           THEN /\ out' = [out EXCEPT !.pdfW = pdfOut]
                /\ al_ret' = Stored(0)
                /\ UNCHANGED visibility_ray
           ELSE /\ out' =
                      [pdfW |-> pdfOut,
                       cosAtLight |->
                          IF supplied.cosAtLight
                          THEN Stored(shapeSample.dot) ELSE out.cosAtLight,
                       distance |->
                          IF supplied.distance
                          THEN Stored(shapeSample.len) ELSE out.distance,
                       emissionPdf |->
                          IF supplied.emissionPdf
                          THEN Stored(UniformHemispherePdf \div surfaceArea)
                          ELSE out.emissionPdf]
                /\ visibility_ray' = ShadowRay(shapeSample.len)
                /\ al_ret' = Stored(intensity)
    /\ UNCHANGED <<shapeSample, surfaceArea, supplied>>
    /\ AreaOnly

Outputs == {"distance", "pdfW", "emissionPdf", "cosAtLight"}

AreaInit ==
    /\ shapeSample \in [pdf : {0, 1, 2}, len : {50, 300}, dot : {-1, 1}]
    /\ surfaceArea \in {2, 3}
    /\ supplied \in [Outputs -> BOOLEAN]
    /\ out = [o \in Outputs |-> Untouched]
    /\ visibility_ray = NoRay
    /\ al_ret = Untouched

AreaIdle ==
    /\ shapeSample = <<>>
    /\ surfaceArea = 0
    /\ supplied = <<>>
    /\ out = <<>>
    /\ visibility_ray = NoRay
    /\ al_ret = Untouched

----------------------------------------------------------------------------
(* The allocations of the microfacet nodes' UpdateBSDF.                    *)

\* Bounds: shading evaluations per task, and tasks.
MaxShadings == 2

MaxResets == 2

MicrofacetKinds == {"MicrofacetReflectionNode", "MicrofacetRefractionNode"}

\* Values of the MicroFacetDistribution and Visibility keys; "" is an absent
\* key, "Phong" and "Unknown" are unrecognized ones.
DistKeys == {"Blinn", "Beckmann", "GGX", "", "Phong"}

VisKeys ==
    {"Neumann", "Kelemen", "Schlick", "Smith", "SmithJointApprox",
     "CookTorrance", "", "Unknown"}

\* bxdf_node.cpp:167-172, 211-216
DistClass(key) ==
    IF key = "Blinn" THEN "Blinn"
    ELSE IF key = "Beckmann" THEN "Beckmann"
    ELSE "GGX"

\* bxdf_node.cpp:175-188, 219-232: the class of the visibility term and the
\* allocator it comes from (SORT_MALLOC, or new for the default).
VisAlloc(key) ==
    IF key = "Neumann" THEN [class |-> "VisNeumann", from |-> "arena"]
    ELSE IF key = "Kelemen" THEN [class |-> "VisKelemen", from |-> "arena"]
    ELSE IF key = "Schlick" THEN [class |-> "VisSchlick", from |-> "arena"]
    ELSE IF key = "Smith" THEN [class |-> "VisSmith", from |-> "arena"]
    ELSE IF key = "SmithJointApprox"
         THEN [class |-> "VisSmithJointApprox", from |-> "arena"]
    ELSE IF key = "CookTorrance"
         THEN [class |-> "VisCookTorrance", from |-> "arena"]
    ELSE [class |-> "VisImplicit", from |-> "heap"]

\* The objects one UpdateBSDF call creates, in order: the distribution, the
\* visibility term, the Fresnel model, the reflectance term.
MicrofacetAllocs(kind, fresnel, term) ==
    /\ mf_node = kind
    /\ shadings < MaxShadings
    /\ shadings' = shadings + 1
    /\ LET vis == VisAlloc(mf_vis)
       IN  /\ arenaObjs' =
                 arenaObjs \o <<DistClass(mf_dist)>>
                           \o (IF vis.from = "arena" THEN <<vis.class>> ELSE <<>>)
                           \o <<fresnel, term>>
           /\ heapObjs' =
                 heapObjs \o (IF vis.from = "heap" THEN <<vis.class>> ELSE <<>>)
    /\ UNCHANGED <<mf_node, mf_dist, mf_vis, resets>>
    /\ AllocOnly

MicrofacetReflectionNode_Allocs ==
    MicrofacetAllocs("MicrofacetReflectionNode", "FresnelConductor",
                     "MicroFacetReflection")

MicrofacetRefractionNode_Allocs ==
    MicrofacetAllocs("MicrofacetRefractionNode", "FresnelDielectric",
                     "MicroFacetRefraction")

\* The end of a task: the arena is reset in bulk; nothing is released one by
\* one, and nothing the arena does not own is released.
ArenaReset ==
    /\ resets < MaxResets
    /\ shadings > 0
    /\ resets' = resets + 1
    /\ shadings' = 0
    /\ arenaObjs' = <<>>
    /\ UNCHANGED <<mf_node, mf_dist, mf_vis, heapObjs>>
    /\ AllocOnly

AllocInit ==
    /\ mf_node \in MicrofacetKinds
    /\ mf_dist \in DistKeys
    /\ mf_vis \in VisKeys
    /\ arenaObjs = <<>>
    /\ heapObjs = <<>>
    /\ shadings = 0
    /\ resets = 0

AllocIdle ==
    /\ mf_node = ""
    /\ mf_dist = ""
    /\ mf_vis = ""
    /\ arenaObjs = <<>>
    /\ heapObjs = <<>>
    /\ shadings = 0
    /\ resets = 0

----------------------------------------------------------------------------
(* The specifications.                                                     *)

InitValid ==
    ValidInit /\ ShadeIdle /\ PostIdle /\ LiIdle /\ AreaIdle /\ AllocIdle

NextValid == CheckValidation

SpecValid == InitValid /\ [][NextValid]_vars

InitShade ==
    ShadeInit /\ ValidIdle /\ PostIdle /\ LiIdle /\ AreaIdle /\ AllocIdle

NextShade ==
    \/ \E t \in Evals, W \in TopWeights : GetBsdf(t, W)
    \/ \E t \in Evals : LayeredBxdfNode_UpdateBSDF(t)
    \/ \E t \in Evals : LayeredBxdfNode_Return(t)
    \/ \E t \in Evals : LambertNode_UpdateBSDF(t)
    \/ \E t \in Evals : OrenNayarNode_UpdateBSDF(t)
    \/ \E t \in Evals : MicrofacetReflectionNode_UpdateBSDF(t)
    \/ \E t \in Evals : MicrofacetRefractionNode_UpdateBSDF(t)
    \/ \E t \in Evals : MerlNode_UpdateBSDF(t)
    \/ \E t \in Evals : FourierBxdfNode_UpdateBSDF(t)

SpecShade == InitShade /\ [][NextShade]_vars

InitPost ==
    PostInit /\ ValidIdle /\ ShadeIdle /\ LiIdle /\ AreaIdle /\ AllocIdle

NextPost == MerlNode_PostProcess \/ FourierBxdfNode_PostProcess

SpecPost == InitPost /\ [][NextPost]_vars

InitLi ==
    LiInit /\ ValidIdle /\ ShadeIdle /\ PostIdle /\ AreaIdle /\ AllocIdle

NextLi ==
    \/ \E depth \in RayDepths, hit \in BOOLEAN : Li_Enter(depth, hit)
    \/ Li_Light
    \/ Li_Return

SpecLi == InitLi /\ [][NextLi]_vars

InitArea ==
    AreaInit /\ ValidIdle /\ ShadeIdle /\ PostIdle /\ LiIdle /\ AllocIdle

NextArea == AreaLight_sample_l

SpecArea == InitArea /\ [][NextArea]_vars

InitAlloc ==
    AllocInit /\ ValidIdle /\ ShadeIdle /\ PostIdle /\ LiIdle /\ AreaIdle

NextAlloc ==
    \/ MicrofacetReflectionNode_Allocs
    \/ MicrofacetRefractionNode_Allocs
    \/ ArenaReset

SpecAlloc == InitAlloc /\ [][NextAlloc]_vars

----------------------------------------------------------------------------
(* The claims.                                                             *)

\* The weights the claim of C1 expects of the terms of a Bsdf, in the order
\* they are appended: the root weight times the weights along the path.
RECURSIVE PathWeights(_, _, _), LayerPathWeights(_, _, _, _)
PathWeights(g, n, W) ==
    IF g[n].kind = LayeredKind THEN LayerPathWeights(g, n, W, 0) ELSE <<W>>

LayerPathWeights(g, n, W, i) ==
    IF i = MAX_BXDF_COUNT
    THEN <<>>
    ELSE (IF g[n].bxdfs[i] = 0
          THEN <<>>
          ELSE PathWeights(g, g[n].bxdfs[i], W * g[n].weights[i]))
         \o LayerPathWeights(g, n, W, i + 1)

\* The weights of the terms of an evaluation's Bsdf, as the Bsdf reads them.
TermWeights(t) == [k \in 1 .. Len(bsdf[t]) |-> WeightOf(bsdf[t][k])]

\* C1: when an evaluation has run alone to its end, every term of its Bsdf
\* has the weight W times the product of the weight-slot values on the path
\* from the root to the term's leaf (one Lambert sub-node with weight w under
\* a layered root: exactly one term, of weight W * w).
C1_WeightPropagation ==
    \A t \in Evals :
        (/\ evalState[t] = "done"
         /\ \A u \in Evals \ {t} : evalState[u] = "idle")
        => TermWeights(t) = PathWeights(graph, Root, topWeight[t])

\* C2: when two evaluations have run on the same graph, in any interleaving,
\* shading has written no node state, no term is in two Bsdfs or twice in
\* one, and every term of a Bsdf has the weight its evaluation set for it.
C2_NoSharedShadingState ==
    (\A t \in Evals : evalState[t] = "done") =>
        /\ written = {}
        /\ \A t, u \in Evals :
              \A j \in DOMAIN bsdf[t], k \in DOMAIN bsdf[u] :
                  (t # u \/ j # k) => bsdf[t][j] # bsdf[u][k]
        /\ \A t \in Evals : TermWeights(t) = setWeight[t]

\* C3: on a node with a non-empty file path the table is loaded exactly once,
\* by the first PostProcess call, however many calls follow; with an empty
\* path it is never loaded.
C3_LoadedOnce ==
    \A k \in MemberKinds :
        /\ (filename[k] # "" /\ calls[k] >= 1) =>
              loads[k] = 1 /\ table[k] = filename[k]
        /\ filename[k] = "" => loads[k] = 0

HasBxdf(slot) == slot.node /\ MAT_NODE_BXDF \in slot.type

HasConstant(slot) == slot.node /\ MAT_NODE_CONSTANT \in slot.type

Answer(b) == IF b THEN "valid" ELSE "invalid"

\* C4 as stated: whatever the kind of the BXDF node, a slot connected to a
\* node whose type includes BXDF makes CheckValidation return false.
C4_AnyBxdfInputRejected ==
    validation # "unchecked" =>
        ((\/ \E name \in DOMAIN m_props : HasBxdf(m_props[name])
          \/ \E i \in DOMAIN bxdfs : HasBxdf(bxdfs[i])
          \/ \E i \in DOMAIN weights : HasBxdf(weights[i]))
         => validation = "invalid")

\* C4 as amended: a node of any BXDF kind but LayeredBxdfNode is invalid when
\* a slot of it is connected to a node whose type includes BXDF. A
\* LayeredBxdfNode is invalid when a Weight{i} slot is connected to a node
\* whose type includes BXDF and not CONSTANT; BXDF nodes on its Bxdf{i}
\* slots, with nothing else connected, leave the answer to the base
\* validation.
C4_BxdfInputRejected ==
    validation # "unchecked" =>
        /\ (/\ nodeKind # LayeredKind
            /\ \E name \in DOMAIN m_props : HasBxdf(m_props[name]))
           => validation = "invalid"
        /\ (/\ nodeKind = LayeredKind
            /\ \E i \in LayerIdx :
                  HasBxdf(weights[i]) /\ ~HasConstant(weights[i]))
           => validation = "invalid"
        /\ (/\ nodeKind = LayeredKind
            /\ \A i \in LayerIdx :
                  /\ ~bxdfs[i].node \/ HasBxdf(bxdfs[i])
                  /\ ~weights[i].node)
           => validation = Answer(baseValid)

\* A microfacet node whose only connection is a node of type BXDF|CONSTANT on
\* eta, valid as far as the base rules go, was found invalid.
C4_Witness ==
    /\ nodeKind = "MicrofacetReflectionNode"
    /\ validation = "invalid"
    /\ baseValid
    /\ \A name \in DOMAIN m_props :
          m_props[name] =
             IF name = "eta"
             THEN [node |-> TRUE, type |-> {MAT_NODE_CONSTANT, MAT_NODE_BXDF}]
             ELSE NullSlot

\* C5: a LayeredBxdfNode is invalid when some Bxdf{i} slot is connected to a
\* node whose type lacks BXDF or some Weight{i} slot to a node whose type
\* lacks CONSTANT, whatever the other slots hold; otherwise (empty slots
\* included) the answer is that of the base validation.
C5_LayeredWiringRejected ==
    (nodeKind = LayeredKind /\ validation # "unchecked") =>
        IF \E i \in LayerIdx :
              \/ bxdfs[i].node /\ ~HasBxdf(bxdfs[i])
              \/ weights[i].node /\ ~HasConstant(weights[i])
        THEN validation = "invalid"
        ELSE validation = Answer(baseValid)

\* A layered node with a BXDF node on Bxdf0 and a node that is neither BXDF
\* nor CONSTANT on Weight0, valid as far as the base rules go, was found
\* invalid.
C5_Witness ==
    /\ nodeKind = LayeredKind
    /\ validation = "invalid"
    /\ baseValid
    /\ bxdfs[0] = [node |-> TRUE, type |-> {MAT_NODE_BXDF}]
    /\ weights[0] = [node |-> TRUE, type |-> {MAT_NODE_OTHER}]
    /\ \A i \in LayerIdx \ {0} : ~bxdfs[i].node /\ ~weights[i].node

DeltaIdx == {i \in DOMAIN lights : lights[i].isDelta}

\* The radiance of the delta lights among the first i lights: each that has
\* radiance, reflectance and visibility adds ld * f * cos / pdf.
RECURSIVE DeltaRadiance(_)
DeltaRadiance(i) ==
    IF i = 0
    THEN Fin(0)
    ELSE LET l == lights[i]
         IN  IF l.isDelta /\ l.ld # 0 /\ l.f # 0 /\ l.visible
             THEN Add(DeltaRadiance(i - 1), Div(l.ld * l.f * l.cos, l.pdf))
             ELSE DeltaRadiance(i - 1)

\* C6: at no point is a non-delta light sampled or tested for visibility;
\* when Li returns from the loop every delta light was sampled, wherever the
\* non-delta lights stand in the list, and the radiance returned is the sum
\* of the delta lights' contributions.
C6_OnlyDeltaLights ==
    /\ sampled \subseteq DeltaIdx
    /\ visTested \subseteq DeltaIdx
    /\ (li_pc = "done" /\ bsdfBuilt) =>
          /\ sampled = DeltaIdx
          /\ li_result = DeltaRadiance(Len(lights))

\* Li returned 3 for an area light standing between two delta lights that
\* contribute 2 and 1.
C6_Witness ==
    /\ li_pc = "done"
    /\ bsdfBuilt
    /\ Len(lights) = 3
    /\ ~lights[2].isDelta
    /\ lights[1] = [isDelta |-> TRUE, ld |-> 2, f |-> 1, visible |-> TRUE,
                    cos |-> 1, pdf |-> 1]
    /\ lights[3] = [isDelta |-> TRUE, ld |-> 2, f |-> 1, visible |-> TRUE,
                    cos |-> 1, pdf |-> 2]
    /\ li_result = Fin(3)

\* C7: a ray deeper than max_recursive_depth gets zero radiance with no
\* intersection, no Bsdf and no light sampled; a ray that is not deeper is
\* intersected with the scene, and if it misses, Li returns the environment
\* radiance and nothing else is done.
C7_DepthCutoff ==
    li_pc = "done" =>
        /\ r_depth > max_recursive_depth =>
              /\ li_result = Fin(0)
              /\ ~intersected /\ ~bsdfBuilt
              /\ sampled = {} /\ visTested = {}
        /\ r_depth <= max_recursive_depth => intersected
        /\ (r_depth <= max_recursive_depth /\ ~r_hit) =>
              /\ li_result = Fin(env)
              /\ ~bsdfBuilt
              /\ sampled = {} /\ visTested = {}

\* A ray of depth max_recursive_depth + 1 that would hit, in a scene with a
\* bright environment and a contributing delta light, got zero.
C7_Witness ==
    /\ li_pc = "done"
    /\ r_depth = max_recursive_depth + 1
    /\ r_hit
    /\ env = 5
    /\ li_result = Fin(0)
    /\ Len(lights) = 1
    /\ lights[1] = [isDelta |-> TRUE, ld |-> 2, f |-> 1, visible |-> TRUE,
                    cos |-> 1, pdf |-> 1]

\* A sample with zero radiance, reflectance, cosine or probability density.
Degenerate(l) == l.ld = 0 \/ l.f = 0 \/ l.cos = 0 \/ l.pdf = 0

RECURSIVE NonDegenerateRadiance(_)
NonDegenerateRadiance(i) ==
    IF i = 0
    THEN 0
    ELSE LET l == lights[i]
         IN  NonDegenerateRadiance(i - 1)
             + (IF l.isDelta /\ ~Degenerate(l) /\ l.visible
                THEN (l.ld * l.f * l.cos) \div l.pdf
                ELSE 0)

\* C8: Li returns from the loop with the sum over the delta lights whose
\* sample is not degenerate; a degenerate one (zero radiance, reflectance,
\* cosine or pdf) adds exactly zero.
C8_DegenerateLightsSkipped ==
    (li_pc = "done" /\ bsdfBuilt) =>
        li_result = Fin(NonDegenerateRadiance(Len(lights)))

\* C9: when the shape's solid-angle pdf is zero the call returns zero and the
\* distance, cosAtLight, emissionPdf outputs and the shadow ray are as they
\* were; otherwise it returns the intensity and the shadow ray spans
\* [0.01, distance - 0.01]; whichever outputs the caller supplies.
C9_ZeroPdfReturnsBlack ==
    al_ret.set =>
        IF shapeSample.pdf = 0
        THEN /\ al_ret.v = 0
             /\ out.distance = Untouched
             /\ out.cosAtLight = Untouched
             /\ out.emissionPdf = Untouched
             /\ visibility_ray = NoRay
        ELSE /\ al_ret.v = intensity
             /\ visibility_ray =
                   [set |-> TRUE, tmin |-> delta,
                    tmax |-> shapeSample.len - delta]

\* C10: after the arena's reset at the end of a task, no object that shading
\* created is still allocated.
C10_NothingOutlivesReset ==
    (resets > 0 /\ shadings = 0) => arenaObjs = <<>> /\ heapObjs = <<>>

====
